---- MODULE Spec2Model ----
(***************************************************************************)
(* VIGAMO: EV fleet compliance analysis.                                   *)
(*                                                                         *)
(* The model covers the join-and-scoring engine (processData), the App     *)
(* component that runs it behind a timer (handleAnalyze / handleReset),    *)
(* and the state of the DashboardView that displays the result (AI         *)
(* summaries and suggestions, filters, row selection, report generation).  *)
(*                                                                         *)
(* Conventions                                                             *)
(*   - an optional value (undefined / null / a missing map key) is the     *)
(*     empty sequence None, a present value x is the one-element sequence  *)
(*     Some(x);                                                            *)
(*   - energy is counted in whole kWh, dates and the clock in whole time   *)
(*     units, with Epoch (new Date(0)) before every clock reading;         *)
(*   - a violation message is the record [kind, plate, amount] of the      *)
(*     template it is built from and the values substituted into it;       *)
(*   - processData runs synchronously, so one run reads one clock value.   *)
(***************************************************************************)
EXTENDS Integers, Sequences, FiniteSets, TLC

VARIABLES
    transactionLog,  \* the uploaded log text, as its list of lines
    transactions,    \* the transaction rows the log carries (its parse, if any)
    aiDetections,    \* the detection fixture (a list, searched with find)
    rtoDatabase,     \* the registry fixture (plate -> optional record)
    now,             \* the wall clock read by new Date()
    isLoading,       \* App state
    timerPending,    \* a setTimeout callback of handleAnalyze is outstanding
    analysisResult,  \* App state: None or Some(list of scored vehicles)
    lastRun,         \* history: the latest completed run of processData
    lastAlert,       \* history: the text of the latest alert() shown, if any
    summaries,       \* DashboardView state: plate -> optional summary text
    loadingSummary,  \* DashboardView state: None or Some(plate)
    summaryCalls,    \* getComplianceSummary calls of the mounted dashboard
                     \* that are in flight, per plate
    expandedRow,     \* DashboardView state: None or Some(plate)
    aiSuggestions,   \* DashboardView state: None or Some(text)
    isGeneratingSuggestions, \* DashboardView state
    suggestionsError,        \* DashboardView state: None or Some(text)
    suggestionCalls, \* getOverallSuggestions calls of the mounted dashboard
                     \* that are in flight
    selectedRows,    \* DashboardView state: set of plates
    filters,         \* DashboardView state: compliance, vehicleType, charging
    dateRange,       \* DashboardView state: start, end ("" when unset)
    searchQuery,     \* DashboardView state
    reportOptions,   \* DashboardView state: the report section toggles
    lastExport,      \* history: the latest call of the report exporter
    reviewedDiscrepancies    \* DashboardView state: set of plates

inputs == <<transactionLog, transactions, aiDetections, rtoDatabase>>

appVars == <<now, isLoading, timerPending, analysisResult, lastRun, lastAlert>>

insightVars == <<summaries, loadingSummary, summaryCalls, expandedRow,
                 aiSuggestions, isGeneratingSuggestions, suggestionsError,
                 suggestionCalls>>

tableVars == <<selectedRows, filters, dateRange, searchQuery, reportOptions,
               lastExport, reviewedDiscrepancies>>

vars == <<inputs, appVars, insightVars, tableVars>>

-----------------------------------------------------------------------------
(* Bounds of the model *)

MaxTx == 4
MaxNow == 2
MaxLines == 4
MaxRows == 2
MaxLiveLines == 2

(* Program constants *)

Tolerance == 2
FaultThreshold == 3
FullScore == 100
Penalty == 20
Epoch == 0

-----------------------------------------------------------------------------
(* Value domains *)

None == << >>
Some(x) == << x >>

Plates == {"KA01", "KA02"}
Chargers == {"EV-CH-01", "EV-CH-02"}
VehicleTypes == {"2-Wheeler", "4-Wheeler", "Truck", "Other"}
HelmetValues == {"true", "false", "null"}
Dates == {1, 2}

SeqUpTo(S, n) == UNION {[1..k -> S] : k \in 0..n}

Abs(x) == IF x < 0 THEN -x ELSE x

Max(a, b) == IF a >= b THEN a ELSE b

Transaction(p, b, c) ==
    [timestamp |-> 1, plate |-> p, billedKwh |-> b, chargerId |-> c]

AiDetection(p, v, h, d) ==
    [plate |-> p, vehicleType |-> v, helmet |-> h, detectedKwh |-> d]

RtoData ==
    [registrationValidTill : Dates, insuranceStatus : {"Active", "Expired"},
     pollutionValidTill : Dates, pendingFine : {0, 500},
     roadTaxStatus : {"Paid", "Due"}]

CleanRto ==
    [registrationValidTill |-> MaxNow + 1, insuranceStatus |-> "Active",
     pollutionValidTill |-> MaxNow + 1, pendingFine |-> 0,
     roadTaxStatus |-> "Paid"]

-----------------------------------------------------------------------------
(* processData *)

RECURSIVE find(_, _)
find(dets, plate) ==
    IF dets = << >> THEN None
    ELSE IF Head(dets).plate = plate THEN Some(Head(dets))
    ELSE find(Tail(dets), plate)

discrepancyCounts0_Persisted ==
    [c \in Chargers |->
        IF lastRun = None THEN 0
        ELSE Cardinality({i \in DOMAIN lastRun[1].result :
                 /\ transactions[i].chargerId = c
                 /\ lastRun[1].result[i].charging.discrepancyFlag # "OK"})]

discrepancyCounts0 == [c \in Chargers |-> 0]

suspiciousSessions0 == {}

IsDiscrepancy_Inclusive(difference) == Abs(difference) >= Tolerance

IsDiscrepancy(difference) == Abs(difference) > Tolerance

FirstPassStep_NoGuard(acc, tx, dets) ==
    LET detection == find(dets, tx.plate)
        detectedKwh == IF detection = None THEN 0 ELSE detection[1].detectedKwh
    IN  IF IsDiscrepancy(tx.billedKwh - detectedKwh)
        THEN [suspiciousSessions |-> acc.suspiciousSessions \cup {tx.plate},
              discrepancyCounts |->
                  [acc.discrepancyCounts EXCEPT ![tx.chargerId] = @ + 1]]
        ELSE acc

FirstPassStep_PerVehicle(acc, tx, dets) ==
    LET detection == find(dets, tx.plate) IN
    IF detection # None /\ IsDiscrepancy(tx.billedKwh - detection[1].detectedKwh)
    THEN [suspiciousSessions |-> acc.suspiciousSessions \cup {tx.plate},
          discrepancyCounts |->
              IF tx.plate \in acc.suspiciousSessions THEN acc.discrepancyCounts
              ELSE [acc.discrepancyCounts EXCEPT ![tx.chargerId] = @ + 1]]
    ELSE acc

FirstPassStep(acc, tx, dets) ==
    LET detection == find(dets, tx.plate) IN
    IF detection # None /\ IsDiscrepancy(tx.billedKwh - detection[1].detectedKwh)
    THEN [suspiciousSessions |-> acc.suspiciousSessions \cup {tx.plate},
          discrepancyCounts |->
              [acc.discrepancyCounts EXCEPT ![tx.chargerId] = @ + 1]]
    ELSE acc

RECURSIVE FirstPass(_, _, _)
FirstPass(acc, txs, dets) ==
    IF txs = << >> THEN acc
    ELSE FirstPass(FirstPassStep(acc, Head(txs), dets), Tail(txs), dets)

DiscrepancyFlag_VehicleFirst(tx, pass1) ==
    IF tx.plate \in pass1.suspiciousSessions THEN "Suspicious"
    ELSE IF pass1.discrepancyCounts[tx.chargerId] >= FaultThreshold
    THEN "Potential Charger Fault"
    ELSE "OK"

DiscrepancyFlag(tx, pass1) ==
    IF pass1.discrepancyCounts[tx.chargerId] >= FaultThreshold
    THEN "Potential Charger Fault"
    ELSE IF tx.plate \in pass1.suspiciousSessions THEN "Suspicious"
    ELSE "OK"

DetectedOrBilled_Zero(detection, tx) ==
    IF detection = None THEN 0 ELSE detection[1].detectedKwh

DetectedOrBilled(detection, tx) ==
    IF detection = None \/ detection[1].detectedKwh = 0 THEN tx.billedKwh
    ELSE detection[1].detectedKwh

ValidTill_Lenient(rto, field) ==
    IF rto = None THEN MaxNow + 2 ELSE rto[1][field]

ValidTill(rto, field) ==
    IF rto = None \/ rto[1][field] = 0 THEN Epoch ELSE rto[1][field]

InsuranceFails(rto) == rto = None \/ rto[1].insuranceStatus # "Active"

FineFails(rto) == rto # None /\ rto[1].pendingFine > 0

TaxFails(rto) == rto = None \/ rto[1].roadTaxStatus # "Paid"

HelmetMissing(detection) ==
    /\ detection # None
    /\ detection[1].vehicleType = "2-Wheeler"
    /\ detection[1].helmet \in {"false", "null"}

Message(kind, plate, amount) ==
    [kind |-> kind, plate |-> plate, amount |-> amount]

Check_Prepend(st, failed, deduct, msg) ==
    IF failed
    THEN [score |-> st.score - deduct,
          overallStatus |-> <<msg>> \o st.overallStatus]
    ELSE st

Check_Halved(st, failed, deduct, msg) ==
    IF failed
    THEN [score |-> st.score - (deduct \div 2),
          overallStatus |-> Append(st.overallStatus, msg)]
    ELSE st

Check_AlwaysPenalty(st, failed, deduct, msg) ==
    IF failed
    THEN [score |-> st.score - Penalty,
          overallStatus |-> Append(st.overallStatus, msg)]
    ELSE st

Check(st, failed, deduct, msg) ==
    IF failed
    THEN [score |-> st.score - deduct,
          overallStatus |-> Append(st.overallStatus, msg)]
    ELSE st

FloorScore_None(score) == score

FloorScore(score) == Max(0, score)

FineStatus(rto) ==
    IF FineFails(rto) THEN [text |-> "Rs", amount |-> rto[1].pendingFine]
    ELSE [text |-> "OK", amount |-> 0]

InsuranceStatus_Active(rto) ==
    IF rto = None THEN "Active" ELSE rto[1].insuranceStatus

InsuranceStatus(rto) ==
    IF rto = None THEN "Expired" ELSE rto[1].insuranceStatus

TaxStatus_Paid(rto) ==
    IF rto = None THEN "Paid" ELSE rto[1].roadTaxStatus

TaxStatus(rto) ==
    IF rto = None THEN "Due" ELSE rto[1].roadTaxStatus

VehicleType_Unknown(detection) ==
    IF detection = None THEN "Truck" ELSE detection[1].vehicleType

VehicleType(detection) ==
    IF detection = None THEN "Other" ELSE detection[1].vehicleType

Helmet(detection) ==
    IF detection = None THEN "null" ELSE detection[1].helmet

ScoreVehicle(tx, dets, rtos, pass1, t) ==
    LET detection == find(dets, tx.plate)
        rto == rtos[tx.plate]
        detected == DetectedOrBilled(detection, tx)
        difference == tx.billedKwh - detected
        discrepancyFlag == DiscrepancyFlag(tx, pass1)
        isRegValid == ValidTill(rto, "registrationValidTill") > t
        isPucValid == ValidTill(rto, "pollutionValidTill") > t
        s0 == [score |-> FullScore, overallStatus |-> << >>]
        s1 == Check(s0, ~isRegValid, Penalty,
                    Message("Reg Expired for", tx.plate, 0))
        s2 == Check(s1, InsuranceFails(rto), Penalty,
                    Message("Insurance Expired for", tx.plate, 0))
        s3 == Check(s2, ~isPucValid, Penalty,
                    Message("PUC Expired for", tx.plate, 0))
        s4 == Check(s3, FineFails(rto), Penalty,
                    Message("Fine Pending", tx.plate,
                            IF rto = None THEN 0 ELSE rto[1].pendingFine))
        s5 == Check(s4, TaxFails(rto), Penalty,
                    Message("Tax Due for", tx.plate, 0))
        s6 == Check(s5, discrepancyFlag # "OK", Penalty,
                    Message("Charging Discrepancy on", tx.plate, 0))
        s7 == Check(s6, HelmetMissing(detection), 0,
                    Message("No Helmet on", tx.plate, 0))
    IN  [plate |-> tx.plate,
         vehicleType |-> VehicleType(detection),
         helmet |-> Helmet(detection),
         rto |-> rto,
         charging |-> [billed |-> tx.billedKwh,
                       detected |-> detected,
                       difference |-> difference,
                       discrepancyFlag |-> discrepancyFlag],
         compliance |-> [score |-> FloorScore(s7.score),
                         fineStatus |-> FineStatus(rto),
                         insuranceStatus |-> InsuranceStatus(rto),
                         pucStatus |-> IF isPucValid THEN "Valid" ELSE "Expired",
                         taxStatus |-> TaxStatus(rto),
                         registrationStatus |->
                             IF isRegValid THEN "Valid" ELSE "Expired",
                         overallStatus |-> s7.overallStatus]]

processData_InnerJoin(txs, dets, rtos, t) ==
    LET pass1 == FirstPass([suspiciousSessions |-> suspiciousSessions0,
                            discrepancyCounts |-> discrepancyCounts0],
                           txs, dets)
        joined == SelectSeq(txs, LAMBDA tx : find(dets, tx.plate) # None)
    IN  [i \in 1..Len(joined) |-> ScoreVehicle(joined[i], dets, rtos, pass1, t)]

processData_SinglePass(txs, dets, rtos, t) ==
    [i \in 1..Len(txs) |->
        ScoreVehicle(txs[i], dets, rtos,
                     FirstPass([suspiciousSessions |-> suspiciousSessions0,
                                discrepancyCounts |-> discrepancyCounts0],
                               SubSeq(txs, 1, i), dets),
                     t)]

processData(txs, dets, rtos, t) ==
    LET pass1 == FirstPass([suspiciousSessions |-> suspiciousSessions0,
                            discrepancyCounts |-> discrepancyCounts0],
                           txs, dets)
    IN  [i \in 1..Len(txs) |-> ScoreVehicle(txs[i], dets, rtos, pass1, t)]

-----------------------------------------------------------------------------------------------------------------------------------------------------
(* Runtime errors of processData: reading a property of undefined throws a
   TypeError.  Both lookups of Pass 2 are defaulted with `|| {}`, so the
   value whose properties are read is always an object. *)

OrEmptyObject_Raw(found) == [isObject |-> found # None, fields |-> found]

OrEmptyObject(found) == [isObject |-> TRUE, fields |-> found]

processDataThrows(txs, dets, rtos) ==
    \E i \in 1..Len(txs) :
        \/ ~OrEmptyObject(find(dets, txs[i].plate)).isObject
        \/ ~OrEmptyObject(rtos[txs[i].plate]).isObject

-----------------------------------------------------------------------------
(* parseTransactions.  The log text is the list of its lines; a line is
   blank, the header (with the column names it carries) or a data row (with
   the number of fields it splits into and the transaction it spells). *)

RequiredColumns == {"timestamp", "plate", "billedkwh", "amount", "chargerid"}

BlankLine == [kind |-> "blank", columns |-> {}, fields |-> 0, tx |-> None]

HeaderLine(cols) ==
    [kind |-> "header", columns |-> cols, fields |-> Cardinality(cols),
     tx |-> None]

RowLine(tx, n) == [kind |-> "row", columns |-> {}, fields |-> n, tx |-> Some(tx)]

RECURSIVE TrimStart(_)
TrimStart(text) ==
    IF text # << >> /\ Head(text).kind = "blank" THEN TrimStart(Tail(text))
    ELSE text

TrimEnd_Keep(text) == text

RECURSIVE TrimEnd(_)
TrimEnd(text) ==
    IF text # << >> /\ text[Len(text)].kind = "blank"
    THEN TrimEnd(SubSeq(text, 1, Len(text) - 1))
    ELSE text

ParseError(name) == [ok |-> FALSE, error |-> name, rows |-> << >>]

parseTransactions(text) ==
    LET lines == TrimEnd(TrimStart(text))
        header == lines[1]
        data == SelectSeq(Tail(lines), LAMBDA l : l.kind # "blank")
    IN  IF lines = << >> THEN ParseError("EmptyInputError")
        ELSE IF Len(lines) < 2 THEN ParseError("MissingDataError")
        ELSE IF ~(RequiredColumns \subseteq header.columns)
        THEN ParseError("MissingColumnsError")
        ELSE IF \E k \in 1..Len(data) :
                    data[k].fields # header.fields \/ data[k].tx = None
        THEN ParseError("MalformedRowError")
        ELSE [ok |-> TRUE, error |-> "",
              rows |-> [k \in 1..Len(data) |-> data[k].tx[1]]]

LogOf(txs) ==
    << HeaderLine(RequiredColumns) >> \o
    [k \in 1..Len(txs) |-> RowLine(txs[k], Cardinality(RequiredColumns))]

-----------------------------------------------------------------------------
(* DashboardView: the state of a freshly mounted dashboard *)

ErrorText == "Error generating summary."

SuggestionsErrorText == "Failed to generate AI suggestions. Please try again."

FreshInsights ==
    << [p \in Plates |-> None],   \* summaries
       None,                      \* loadingSummary
       [p \in Plates |-> 0],      \* summaryCalls
       None,                      \* expandedRow
       None,                      \* aiSuggestions
       FALSE,                     \* isGeneratingSuggestions
       None,                      \* suggestionsError
       0 >>                       \* suggestionCalls

FreshTable ==
    << {},                                                          \* selectedRows
       [compliance |-> "all", vehicleType |-> "all", charging |-> "all"],
       [start |-> "", end |-> ""],                                  \* dateRange
       "",                                                          \* searchQuery
       [includeComplianceDetails |-> TRUE,
        includeChargingDiscrepancies |-> TRUE],                     \* reportOptions
       None,                                                        \* lastExport
       {} >>                                           \* reviewedDiscrepancies

DashboardMounted ==
    /\ summaries = FreshInsights[1]
    /\ loadingSummary = FreshInsights[2]
    /\ summaryCalls = FreshInsights[3]
    /\ expandedRow = FreshInsights[4]
    /\ aiSuggestions = FreshInsights[5]
    /\ isGeneratingSuggestions = FreshInsights[6]
    /\ suggestionsError = FreshInsights[7]
    /\ suggestionCalls = FreshInsights[8]
    /\ selectedRows = FreshTable[1]
    /\ filters = FreshTable[2]
    /\ dateRange = FreshTable[3]
    /\ searchQuery = FreshTable[4]
    /\ reportOptions = FreshTable[5]
    /\ lastExport = FreshTable[6]
    /\ reviewedDiscrepancies = FreshTable[7]

DashboardUnmount ==
    /\ summaries' = FreshInsights[1]
    /\ loadingSummary' = FreshInsights[2]
    /\ summaryCalls' = FreshInsights[3]
    /\ expandedRow' = FreshInsights[4]
    /\ aiSuggestions' = FreshInsights[5]
    /\ isGeneratingSuggestions' = FreshInsights[6]
    /\ suggestionsError' = FreshInsights[7]
    /\ suggestionCalls' = FreshInsights[8]
    /\ selectedRows' = FreshTable[1]
    /\ filters' = FreshTable[2]
    /\ dateRange' = FreshTable[3]
    /\ searchQuery' = FreshTable[4]
    /\ reportOptions' = FreshTable[5]
    /\ lastExport' = FreshTable[6]
    /\ reviewedDiscrepancies' = FreshTable[7]

-----------------------------------------------------------------------------
(* App *)

AlertText ==
    "There was an error parsing the transaction log. Please check the file format."

HandleAnalyze ==
    /\ analysisResult = None
    /\ ~isLoading
    /\ isLoading' = TRUE
    /\ timerPending' = TRUE
    /\ UNCHANGED <<inputs, now, analysisResult, lastRun, lastAlert, insightVars,
                   tableVars>>

AnalyzeTimeout_NoFinally ==
    /\ timerPending
    /\ LET parsed == parseTransactions(transactionLog) IN
       IF parsed.ok /\ ~processDataThrows(parsed.rows, aiDetections, rtoDatabase)
       THEN LET processed ==
                    processData(parsed.rows, aiDetections, rtoDatabase, now)
            IN  /\ analysisResult' = Some(processed)
                /\ lastRun' = Some([time |-> now, result |-> processed,
                                    previous |->
                                        IF lastRun = None THEN None
                                        ELSE Some([time |-> lastRun[1].time,
                                                   result |-> lastRun[1].result])])
                /\ isLoading' = FALSE
                /\ UNCHANGED lastAlert
       ELSE /\ lastAlert' = Some(AlertText)
            /\ UNCHANGED <<analysisResult, lastRun, isLoading>>
    /\ timerPending' = FALSE
    /\ UNCHANGED <<inputs, now, insightVars, tableVars>>

AnalyzeTimeout_FirstRow ==
    /\ timerPending
    /\ LET parsed == parseTransactions(transactionLog) IN
       IF parsed.ok /\ ~processDataThrows(parsed.rows, aiDetections, rtoDatabase)
       THEN LET processed ==
                    processData(SubSeq(parsed.rows, 1, 1), aiDetections,
                                rtoDatabase, now)
            IN  /\ analysisResult' = Some(processed)
                /\ lastRun' = Some([time |-> now, result |-> processed,
                                    previous |-> None])
                /\ UNCHANGED lastAlert
       ELSE /\ lastAlert' = Some(AlertText)
            /\ UNCHANGED <<analysisResult, lastRun>>
    /\ isLoading' = FALSE
    /\ timerPending' = FALSE
    /\ UNCHANGED <<inputs, now, insightVars, tableVars>>

AnalyzeTimeout ==
    /\ timerPending
    /\ LET parsed == parseTransactions(transactionLog) IN
       IF parsed.ok /\ ~processDataThrows(parsed.rows, aiDetections, rtoDatabase)
       THEN LET processed ==
                    processData(parsed.rows, aiDetections, rtoDatabase, now)
            IN  /\ analysisResult' = Some(processed)
                /\ lastRun' = Some([time |-> now, result |-> processed,
                                    previous |->
                                        IF lastRun = None THEN None
                                        ELSE Some([time |-> lastRun[1].time,
                                                   result |-> lastRun[1].result])])
                /\ UNCHANGED lastAlert
       ELSE /\ lastAlert' = Some(AlertText)
            /\ UNCHANGED <<analysisResult, lastRun>>
    /\ isLoading' = FALSE
    /\ timerPending' = FALSE
    /\ UNCHANGED <<inputs, now, insightVars, tableVars>>

HandleReset ==
    /\ analysisResult # None
    /\ analysisResult' = None
    /\ DashboardUnmount
    /\ UNCHANGED <<inputs, now, isLoading, timerPending, lastRun, lastAlert>>

Tick ==
    /\ now < MaxNow
    /\ now' = now + 1
    /\ UNCHANGED <<inputs, isLoading, timerPending, analysisResult, lastRun,
                   lastAlert, insightVars, tableVars>>

-----
(* Input families *)

FleetTransactions ==
    SeqUpTo({Transaction(p, 15, c) : p \in Plates, c \in Chargers}, MaxTx)

FleetDetections ==
    LET choice == {None} \cup {Some(d) : d \in {0, 12, 14}}
        entry(p, ch) ==
            IF ch = None THEN << >>
            ELSE << AiDetection(p, "4-Wheeler", "null", ch[1]) >>
    IN  {entry("KA01", a) \o entry("KA02", b) : a \in choice, b \in choice}

SingleTransactions ==
    SeqUpTo({Transaction("KA01", b, "EV-CH-01") : b \in {14, 15}}, MaxTx)

RegistryFor(r) == [p \in Plates |-> IF p = "KA01" THEN r ELSE None]

InitFleet ==
    /\ transactions \in FleetTransactions
    /\ transactionLog = LogOf(transactions)
    /\ aiDetections \in FleetDetections
    /\ rtoDatabase = [p \in Plates |-> IF p = "KA01" THEN Some(CleanRto) ELSE None]
    /\ now = 1

InitRegistry ==
    /\ transactions \in SingleTransactions
    /\ transactionLog = LogOf(transactions)
    /\ aiDetections \in
           {<< >>, << AiDetection("KA01", "2-Wheeler", "false", 12) >>}
    /\ rtoDatabase \in {RegistryFor(r) : r \in {None} \cup {Some(x) : x \in RtoData}}
    /\ now \in 1..MaxNow

InitDetection ==
    /\ transactions \in SingleTransactions
    /\ transactionLog = LogOf(transactions)
    /\ aiDetections \in
           {<< >>} \cup
           {<< AiDetection("KA01", v, h, d) >> :
                v \in VehicleTypes, h \in HelmetValues, d \in {0, 12, 17}}
    /\ rtoDatabase \in {RegistryFor(None), RegistryFor(Some(CleanRto))}
    /\ now = 1

InitApp ==
    /\ isLoading = FALSE
    /\ timerPending = FALSE
    /\ analysisResult = None
    /\ lastRun = None
    /\ lastAlert = None
    /\ DashboardMounted

Init == (InitFleet \/ InitRegistry \/ InitDetection) /\ InitApp

Next == HandleAnalyze \/ AnalyzeTimeout

Spec == Init /\ [][Next]_vars

(* A dashboard session: the clock advances and the analysis is run again
   after a reset. *)

InitSession ==
    /\ transactions \in SingleTransactions
    /\ transactionLog = LogOf(transactions)
    /\ aiDetections \in
           {<< >>, << AiDetection("KA01", "2-Wheeler", "false", 12) >>}
    /\ rtoDatabase \in
           {RegistryFor(None)} \cup
           {RegistryFor(Some([CleanRto EXCEPT !.registrationValidTill = r,
                                              !.pollutionValidTill = q])) :
                r \in Dates, q \in Dates}
    /\ now = 1

NextApp == HandleAnalyze \/ AnalyzeTimeout \/ HandleReset \/ Tick

InitSessionApp == InitSession /\ InitApp

SpecApp == InitSessionApp /\ [][NextApp]_vars

(* An upload session: the log is any text of a few lines, well-formed or
   not. *)

UploadLines ==
    {BlankLine,
     HeaderLine(RequiredColumns),
     HeaderLine(RequiredColumns \ {"plate"}),
     RowLine(Transaction("KA01", 15, "EV-CH-01"), Cardinality(RequiredColumns)),
     RowLine(Transaction("KA02", 15, "EV-CH-01"), Cardinality(RequiredColumns)),
     RowLine(Transaction("KA01", 15, "EV-CH-01"), Cardinality(RequiredColumns) - 1)}

InitUpload ==
    /\ transactionLog \in SeqUpTo(UploadLines, MaxLines)
    /\ transactions = parseTransactions(transactionLog).rows
    /\ aiDetections = << AiDetection("KA01", "4-Wheeler", "null", 12) >>
    /\ rtoDatabase = RegistryFor(Some(CleanRto))
    /\ now = 1

InitUploadApp == InitUpload /\ InitApp

SpecUpload == InitUploadApp /\ [][NextApp]_vars

(* The same session with the timer of handleAnalyze firing: a callback
   passed to setTimeout is run once its delay has passed. *)

DashboardShown == analysisResult # None

LiveLogs ==
    LET header == HeaderLine(RequiredColumns)
        row(p) == RowLine(Transaction(p, 15, "EV-CH-01"),
                          Cardinality(RequiredColumns))
    IN  SeqUpTo(UploadLines, MaxLiveLines) \cup
        {<< header, row("KA01"), BlankLine, row("KA02") >>,
         << BlankLine, header, row("KA01"), BlankLine >>,
         << header, BlankLine, BlankLine >>}

InitUploadLive ==
    /\ transactionLog \in LiveLogs
    /\ transactions = parseTransactions(transactionLog).rows
    /\ aiDetections = << AiDetection("KA01", "4-Wheeler", "null", 12) >>
    /\ rtoDatabase = RegistryFor(Some(CleanRto))
    /\ now = 1
    /\ InitApp

SpecUploadLive == InitUploadLive /\ [][NextApp]_vars /\ WF_vars(AnalyzeTimeout)

-----------------------------------------------------------------------------
(* DashboardView: AI insights.  The dashboard is mounted while analysisResult
   is set; its data prop is that list. *)

data == analysisResult[1]

Truthy(text) == text # None /\ text[1] # ""

SummaryTexts == {"", "All systems nominal. Full compliance achieved."}

SuggestionTexts == {"", "1. Inspect charger EV-CH-01."}

ToggleRow(plate) ==
    /\ analysisResult # None
    /\ \E i \in 1..Len(data) : data[i].plate = plate
    /\ expandedRow' = IF expandedRow = Some(plate) THEN None ELSE Some(plate)
    /\ UNCHANGED <<inputs, appVars, summaries, loadingSummary, summaryCalls,
                   aiSuggestions, isGeneratingSuggestions, suggestionsError,
                   suggestionCalls, tableVars>>

SummaryButtonEnabled_OwnPlate(plate) ==
    /\ expandedRow = Some(plate)
    /\ ~Truthy(summaries[plate])
    /\ loadingSummary # Some(plate)

SummaryButtonEnabled(plate) ==
    /\ expandedRow = Some(plate)
    /\ ~Truthy(summaries[plate])
    /\ loadingSummary = None

HandleGenerateSummary(i) ==
    /\ analysisResult # None
    /\ i \in 1..Len(data)
    /\ SummaryButtonEnabled(data[i].plate)
    /\ ~(loadingSummary = Some(data[i].plate) \/ Truthy(summaries[data[i].plate]))
    /\ loadingSummary' = Some(data[i].plate)
    /\ summaryCalls' = [summaryCalls EXCEPT ![data[i].plate] = @ + 1]
    /\ UNCHANGED <<inputs, appVars, summaries, expandedRow, aiSuggestions,
                   isGeneratingSuggestions, suggestionsError, suggestionCalls,
                   tableVars>>

StoreSummary_NoSpread(plate, text) ==
    [p \in Plates |-> IF p = plate THEN Some(text) ELSE None]

StoreSummary(plate, text) == [summaries EXCEPT ![plate] = Some(text)]

SummaryResolve(plate, text) ==
    /\ summaryCalls[plate] > 0
    /\ summaries' = StoreSummary(plate, text)
    /\ loadingSummary' = None
    /\ summaryCalls' = [summaryCalls EXCEPT ![plate] = @ - 1]
    /\ UNCHANGED <<inputs, appVars, expandedRow, aiSuggestions,
                   isGeneratingSuggestions, suggestionsError, suggestionCalls,
                   tableVars>>

SummaryReject_Invalidate(plate) ==
    /\ summaryCalls[plate] > 0
    /\ summaries' = StoreSummary(plate, ErrorText)
    /\ loadingSummary' = None
    /\ summaryCalls' = [summaryCalls EXCEPT ![plate] = @ - 1]
    /\ analysisResult' = None
    /\ UNCHANGED <<inputs, now, isLoading, timerPending, lastRun, lastAlert,
                   expandedRow, aiSuggestions, isGeneratingSuggestions,
                   suggestionsError, suggestionCalls, tableVars>>

SummaryReject(plate) ==
    /\ summaryCalls[plate] > 0
    /\ summaries' = StoreSummary(plate, ErrorText)
    /\ loadingSummary' = None
    /\ summaryCalls' = [summaryCalls EXCEPT ![plate] = @ - 1]
    /\ UNCHANGED <<inputs, appVars, expandedRow, aiSuggestions,
                   isGeneratingSuggestions, suggestionsError, suggestionCalls,
                   tableVars>>

SuggestionsButtonShown ==
    /\ ~isGeneratingSuggestions
    /\ ~Truthy(suggestionsError)
    /\ ~Truthy(aiSuggestions)

HandleGenerateSuggestions ==
    /\ analysisResult # None
    /\ SuggestionsButtonShown
    /\ isGeneratingSuggestions' = TRUE
    /\ suggestionsError' = None
    /\ aiSuggestions' = None
    /\ suggestionCalls' = suggestionCalls + 1
    /\ UNCHANGED <<inputs, appVars, summaries, loadingSummary, summaryCalls,
                   expandedRow, tableVars>>

SuggestionsResolve(text) ==
    /\ suggestionCalls > 0
    /\ aiSuggestions' = Some(text)
    /\ isGeneratingSuggestions' = FALSE
    /\ suggestionCalls' = suggestionCalls - 1
    /\ UNCHANGED <<inputs, appVars, summaries, loadingSummary, summaryCalls,
                   expandedRow, suggestionsError, tableVars>>

SuggestionsReject ==
    /\ suggestionCalls > 0
    /\ suggestionsError' = Some(SuggestionsErrorText)
    /\ isGeneratingSuggestions' = FALSE
    /\ suggestionCalls' = suggestionCalls - 1
    /\ UNCHANGED <<inputs, appVars, summaries, loadingSummary, summaryCalls,
                   expandedRow, aiSuggestions, tableVars>>

InitDashboard ==
    /\ transactions \in
           SeqUpTo({Transaction(p, 15, "EV-CH-01") : p \in Plates}, MaxRows)
    /\ transactionLog = LogOf(transactions)
    /\ aiDetections = << AiDetection("KA01", "4-Wheeler", "null", 12) >>
    /\ rtoDatabase = RegistryFor(Some(CleanRto))
    /\ now = 1

InitInsights == InitDashboard /\ InitApp

NextInsights ==
    \/ HandleAnalyze
    \/ AnalyzeTimeout
    \/ \E plate \in Plates : ToggleRow(plate)
    \/ \E i \in 1..MaxRows : HandleGenerateSummary(i)
    \/ \E plate \in Plates, text \in SummaryTexts : SummaryResolve(plate, text)
    \/ \E plate \in Plates : SummaryReject(plate)
    \/ HandleGenerateSuggestions
    \/ \E text \in SuggestionTexts : SuggestionsResolve(text)
    \/ SuggestionsReject

SpecInsights == InitInsights /\ [][NextInsights]_vars

-----------------------------------------------------------------------------
(* DashboardView: the table, its filters and the report *)

Chars(text) ==
    CASE text = "KA01" -> << "K", "A", "0", "1" >>
      [] text = "KA02" -> << "K", "A", "0", "2" >>
      [] text = "ka01" -> << "k", "a", "0", "1" >>
      [] text = "A0" -> << "A", "0" >>
      [] text = "3" -> << "3" >>
      [] text = "" -> << >>

SearchQueries == {"", "ka01", "A0", "3"}

toLowerCase(chars) ==
    [k \in DOMAIN chars |->
        CASE chars[k] = "K" -> "k"
          [] chars[k] = "A" -> "a"
          [] OTHER -> chars[k]]

includes(chars, part) ==
    \E k \in 0..(Len(chars) - Len(part)) :
        SubSeq(chars, k + 1, k + Len(part)) = part

Timestamp(v) == IF "timestamp" \in DOMAIN v THEN Some(v.timestamp) ELSE None

DateInputs == {"", "day1", "day2"}

DayOf(text) == CASE text = "day1" -> 1 [] text = "day2" -> 2

InDateRange(v, range) ==
    IF range.start = "" /\ range.end = "" THEN TRUE
    ELSE IF Timestamp(v) = None THEN FALSE
    ELSE /\ range.start = "" \/ Timestamp(v)[1] >= DayOf(range.start)
         /\ range.end = "" \/ Timestamp(v)[1] <= DayOf(range.end)

Visible(v, f, range, query) ==
    /\ ~(query # "" /\
         ~includes(toLowerCase(Chars(v.plate)), toLowerCase(Chars(query))))
    /\ ~(f.compliance = "violations" /\ Len(v.compliance.overallStatus) = 0)
    /\ ~(f.compliance = "compliant" /\ Len(v.compliance.overallStatus) > 0)
    /\ ~(f.vehicleType # "all" /\ v.vehicleType # f.vehicleType)
    /\ ~(f.charging # "all" /\ v.charging.discrepancyFlag # f.charging)
    /\ InDateRange(v, range)

filteredData ==
    SelectSeq(data, LAMBDA v : Visible(v, filters, dateRange, searchQuery))

FilterValues(name) ==
    CASE name = "compliance" -> {"all", "violations", "compliant"}
      [] name = "vehicleType" ->
             {"all"} \cup {data[i].vehicleType : i \in 1..Len(data)}
      [] name = "charging" ->
             {"all", "OK", "Suspicious", "Potential Charger Fault"}

(* A filter change that narrows the data list itself. *)
HandleFilterChange_InPlace(name, value) ==
    /\ analysisResult # None
    /\ value \in FilterValues(name)
    /\ filters' = [filters EXCEPT ![name] = value]
    /\ analysisResult' =
           Some(SelectSeq(data, LAMBDA v : Visible(v, filters', dateRange,
                                                   searchQuery)))
    /\ UNCHANGED <<inputs, now, isLoading, timerPending, lastRun, lastAlert,
                   insightVars, selectedRows, dateRange, searchQuery,
                   reportOptions, lastExport, reviewedDiscrepancies>>

HandleFilterChange(name, value) ==
    /\ analysisResult # None
    /\ value \in FilterValues(name)
    /\ filters' = [filters EXCEPT ![name] = value]
    /\ UNCHANGED <<inputs, appVars, insightVars, selectedRows, dateRange,
                   searchQuery, reportOptions, lastExport, reviewedDiscrepancies>>

SetSearchQuery(query) ==
    /\ analysisResult # None
    /\ searchQuery' = query
    /\ UNCHANGED <<inputs, appVars, insightVars, selectedRows, filters, dateRange,
                   reportOptions, lastExport, reviewedDiscrepancies>>

HandleDateChange(name, value) ==
    /\ analysisResult # None
    /\ dateRange' = [dateRange EXCEPT ![name] = value]
    /\ UNCHANGED <<inputs, appVars, insightVars, selectedRows, filters,
                   searchQuery, reportOptions, lastExport, reviewedDiscrepancies>>

ResetFilters ==
    /\ analysisResult # None
    /\ filters' = [compliance |-> "all", vehicleType |-> "all", charging |-> "all"]
    /\ dateRange' = [start |-> "", end |-> ""]
    /\ searchQuery' = ""
    /\ UNCHANGED <<inputs, appVars, insightVars, selectedRows, reportOptions,
                   lastExport, reviewedDiscrepancies>>

discrepancyData ==
    SelectSeq(data, LAMBDA v : v.charging.discrepancyFlag # "OK")

HandleMarkAllReviewed ==
    /\ analysisResult # None
    /\ Len(discrepancyData) > 0
    /\ ~(\A i \in 1..Len(discrepancyData) :
             discrepancyData[i].plate \in reviewedDiscrepancies)
    /\ reviewedDiscrepancies' =
           reviewedDiscrepancies \cup
           {discrepancyData[i].plate : i \in 1..Len(discrepancyData)}
    /\ UNCHANGED <<inputs, appVars, insightVars, selectedRows, filters, dateRange,
                   searchQuery, reportOptions, lastExport>>

HandleClearReviews ==
    /\ analysisResult # None
    /\ Len(discrepancyData) > 0
    /\ reviewedDiscrepancies # {}
    /\ reviewedDiscrepancies' = {}
    /\ UNCHANGED <<inputs, appVars, insightVars, selectedRows, filters, dateRange,
                   searchQuery, reportOptions, lastExport>>

allVisibleSelected ==
    /\ Len(filteredData) > 0
    /\ \A i \in 1..Len(filteredData) : filteredData[i].plate \in selectedRows

HandleSelectAll_Clear ==
    /\ analysisResult # None
    /\ Len(filteredData) # 0
    /\ LET visible == {filteredData[i].plate : i \in 1..Len(filteredData)}
       IN  selectedRows' = IF allVisibleSelected THEN {}
                           ELSE selectedRows \cup visible
    /\ UNCHANGED <<inputs, appVars, insightVars, filters, dateRange, searchQuery,
                   reportOptions, lastExport, reviewedDiscrepancies>>

HandleSelectAll ==
    /\ analysisResult # None
    /\ Len(filteredData) # 0
    /\ LET visible == {filteredData[i].plate : i \in 1..Len(filteredData)}
       IN  selectedRows' = IF allVisibleSelected THEN selectedRows \ visible
                           ELSE selectedRows \cup visible
    /\ UNCHANGED <<inputs, appVars, insightVars, filters, dateRange, searchQuery,
                   reportOptions, lastExport, reviewedDiscrepancies>>

HandleRowSelect(plate) ==
    /\ analysisResult # None
    /\ \E i \in 1..Len(filteredData) : filteredData[i].plate = plate
    /\ selectedRows' = IF plate \in selectedRows THEN selectedRows \ {plate}
                       ELSE selectedRows \cup {plate}
    /\ UNCHANGED <<inputs, appVars, insightVars, filters, dateRange, searchQuery,
                   reportOptions, lastExport, reviewedDiscrepancies>>

HandleReportOptionChange(name, checked) ==
    /\ analysisResult # None
    /\ reportOptions' = [reportOptions EXCEPT ![name] = checked]
    /\ UNCHANGED <<inputs, appVars, insightVars, selectedRows, filters, dateRange,
                   searchQuery, lastExport, reviewedDiscrepancies>>

isReportButtonDisabled ==
    \/ selectedRows = {} /\ Len(filteredData) = 0
    \/ ~reportOptions.includeComplianceDetails /\
       ~reportOptions.includeChargingDiscrepancies

(* App.handleGenerateReport is declared without parameters: what the
   dashboard passes is dropped and the exporter is called with the whole
   analysisResult and nothing else. *)
handleGenerateReport(dataToReport, options) ==
    [data |-> analysisResult[1], sections |-> None]

PlatesOf(list) == [k \in 1..Len(list) |-> list[k].plate]

generateReport(args) ==
    IF args.sections = None
    THEN [threw |-> TRUE, compliance |-> << >>, discrepancies |-> << >>]
    ELSE [threw |-> FALSE,
          compliance |->
              IF args.sections[1].includeComplianceDetails
              THEN PlatesOf(args.data) ELSE << >>,
          discrepancies |->
              IF args.sections[1].includeChargingDiscrepancies
              THEN PlatesOf(SelectSeq(args.data,
                       LAMBDA v : v.charging.discrepancyFlag # "OK"))
              ELSE << >>]

HandleReportGeneration ==
    /\ analysisResult # None
    /\ ~isReportButtonDisabled
    /\ LET dataToReport ==
               IF selectedRows # {}
               THEN SelectSeq(data, LAMBDA v : v.plate \in selectedRows)
               ELSE filteredData
           received == handleGenerateReport(dataToReport, reportOptions)
       IN  IF Len(dataToReport) > 0
           THEN lastExport' = Some([selectedRows |-> selectedRows,
                                    filteredData |-> filteredData,
                                    reportOptions |-> reportOptions,
                                    received |-> received,
                                    report |-> generateReport(received)])
           ELSE UNCHANGED lastExport
    /\ UNCHANGED <<inputs, appVars, insightVars, selectedRows, filters, dateRange,
                   searchQuery, reportOptions, reviewedDiscrepancies>>

InitReport == InitDashboard /\ InitApp

NextReport ==
    \/ HandleAnalyze
    \/ AnalyzeTimeout
    \/ \E name \in {"compliance", "vehicleType", "charging"} :
           \E value \in {"all", "violations", "compliant", "OK", "Suspicious",
                          "Potential Charger Fault"} \cup VehicleTypes :
               HandleFilterChange(name, value)
    \/ HandleSelectAll
    \/ \E plate \in Plates : HandleRowSelect(plate)
    \/ \E name \in {"includeComplianceDetails", "includeChargingDiscrepancies"} :
           \E checked \in BOOLEAN : HandleReportOptionChange(name, checked)
    \/ HandleReportGeneration

SpecReport == InitReport /\ [][NextReport]_vars

(* The table under its filters: logs whose transactions carry different
   days, every filter control, row selection. *)

InitFilters ==
    /\ transactions \in
           SeqUpTo({[Transaction(p, 15, "EV-CH-01") EXCEPT !.timestamp = d] :
                        p \in Plates, d \in Dates}, MaxRows)
    /\ transactionLog = LogOf(transactions)
    /\ aiDetections = << AiDetection("KA01", "4-Wheeler", "null", 12) >>
    /\ rtoDatabase = RegistryFor(Some(CleanRto))
    /\ now = 1
    /\ InitApp

NextFilters ==
    \/ HandleAnalyze
    \/ AnalyzeTimeout
    \/ \E name \in {"vehicleType", "charging"} :
           \E value \in {"all", "Suspicious", "4-Wheeler"} :
               HandleFilterChange(name, value)
    \/ \E name \in {"start", "end"} :
           \E value \in DateInputs : HandleDateChange(name, value)
    \/ \E query \in {"", "ka01"} : SetSearchQuery(query)
    \/ ResetFilters
    \/ HandleSelectAll
    \/ \E plate \in Plates : HandleRowSelect(plate)

SpecFilters == InitFilters /\ [][NextFilters]_vars

(* The whole dashboard: every operation it offers, each with one or two
   values. *)

InitTable ==
    /\ transactions \in
           {<< Transaction("KA01", 15, "EV-CH-01"), Transaction(p, 15, "EV-CH-01") >> :
                p \in Plates}
    /\ transactionLog = LogOf(transactions)
    /\ aiDetections = << AiDetection("KA01", "4-Wheeler", "null", 12) >>
    /\ rtoDatabase = RegistryFor(Some(CleanRto))
    /\ now = 1
    /\ InitApp

NextTable ==
    \/ HandleAnalyze
    \/ AnalyzeTimeout
    \/ \E value \in {"all", "Suspicious"} : HandleFilterChange("charging", value)
    \/ \E value \in {"", "day1"} : HandleDateChange("start", value)
    \/ \E query \in {"", "ka01"} : SetSearchQuery(query)
    \/ ResetFilters
    \/ HandleSelectAll
    \/ HandleRowSelect("KA01")
    \/ \E checked \in BOOLEAN :
           HandleReportOptionChange("includeComplianceDetails", checked)
    \/ HandleReportGeneration
    \/ HandleMarkAllReviewed
    \/ HandleClearReviews
    \/ ToggleRow("KA01")
    \/ \E i \in 1..MaxRows : HandleGenerateSummary(i)
    \/ SummaryResolve("KA01", "All systems nominal. Full compliance achieved.")
    \/ SummaryReject("KA01")
    \/ HandleGenerateSuggestions
    \/ SuggestionsResolve("1. Inspect charger EV-CH-01.")
    \/ SuggestionsReject

SpecTable == InitTable /\ [][NextTable]_vars

-----------------------------------------------------------------------------
(* Vocabulary of the properties, defined on the inputs and on the latest
   result, independently of the engine's own passes. *)

Done == analysisResult # None

result == analysisResult[1]

Records == 1..Len(result)

runTime == lastRun[1].time

Matches(plate) == {k \in 1..Len(aiDetections) : aiDetections[k].plate = plate}

HasDetection(plate) == Matches(plate) # {}

DetectionOf(plate) ==
    aiDetections[CHOOSE k \in Matches(plate) : \A m \in Matches(plate) : k <= m]

WithinTolerance(tx) ==
    /\ HasDetection(tx.plate)
    /\ tx.billedKwh - DetectionOf(tx.plate).detectedKwh <= 2
    /\ DetectionOf(tx.plate).detectedKwh - tx.billedKwh <= 2

Flagged ==
    {j \in 1..Len(transactions) :
        HasDetection(transactions[j].plate) /\ ~WithinTolerance(transactions[j])}

FlaggedOn(charger) == {j \in Flagged : transactions[j].chargerId = charger}

FlaggedPlates == {transactions[j].plate : j \in Flagged}

Registry(i) == rtoDatabase[transactions[i].plate]

Kinds(i) ==
    [m \in 1..Len(result[i].compliance.overallStatus) |->
        result[i].compliance.overallStatus[m].kind]

Rank(kind) ==
    CASE kind = "Reg Expired for" -> 1
      [] kind = "Insurance Expired for" -> 2
      [] kind = "PUC Expired for" -> 3
      [] kind = "Fine Pending" -> 4
      [] kind = "Tax Due for" -> 5
      [] kind = "Charging Discrepancy on" -> 6
      [] kind = "No Helmet on" -> 7

NonHelmet(i) == {m \in DOMAIN Kinds(i) : Kinds(i)[m] # "No Helmet on"}

FailedChecks(i) ==
    LET rto == Registry(i)
        flag == result[i].charging.discrepancyFlag
    IN  {c \in {"registration", "insurance", "pollution", "fine", "tax", "charging"} :
            \/ c = "registration" /\
                 (rto = None \/ rto[1].registrationValidTill <= runTime)
            \/ c = "insurance" /\ (rto = None \/ rto[1].insuranceStatus # "Active")
            \/ c = "pollution" /\
                 (rto = None \/ rto[1].pollutionValidTill <= runTime)
            \/ c = "fine" /\ rto # None /\ rto[1].pendingFine > 0
            \/ c = "tax" /\ (rto = None \/ rto[1].roadTaxStatus # "Paid")
            \/ c = "charging" /\ flag # "OK"}

-----------------------------------------------------------------------------
(* C1: processData returns one record per transaction, in order: the result
   has the length of the transaction list and record i carries the plate of
   transaction i and its billedKwh as charging.billed, with or without a
   detection or a registry record for the plate. *)
C1_OneRecordPerTransaction ==
    Done =>
        /\ Len(result) = Len(transactions)
        /\ \A i \in 1..Len(transactions) :
              /\ i \in DOMAIN result
              /\ result[i].plate = transactions[i].plate
              /\ result[i].charging.billed = transactions[i].billedKwh

C1_Witness ==
    /\ Done
    /\ Len(transactions) >= 2
    /\ \E i \in Records :
          ~HasDetection(transactions[i].plate) /\ Registry(i) = None
    /\ \E i \in Records : HasDetection(transactions[i].plate)

(* C2: every record's compliance score lies between 0 and 100 inclusive. *)
C2_ScoreInRange ==
    Done => \A i \in Records :
        result[i].compliance.score >= 0 /\ result[i].compliance.score <= 100

C2_Witness ==
    /\ Done
    /\ \E i \in Records :
          Cardinality(FailedChecks(i)) = 6 /\ result[i].compliance.score = 0

(* C3 as stated: a transaction with a matching detection and a difference of
   at most 2 kWh is flagged OK whatever the other transactions of the log
   are. *)
C3_Original ==
    Done => \A i \in Records :
        WithinTolerance(transactions[i]) =>
            result[i].charging.discrepancyFlag = "OK"

(* C3 amended: a transaction with a matching detection and a difference of
   at most 2 kWh is flagged OK provided no transaction of the log with the
   same plate exceeds the tolerance and fewer than 3 transactions on its
   charger exceed it. *)
C3_WithinToleranceOK ==
    Done => \A i \in Records :
        ( /\ WithinTolerance(transactions[i])
          /\ transactions[i].plate \notin FlaggedPlates
          /\ Cardinality(FlaggedOn(transactions[i].chargerId)) < 3 )
        => result[i].charging.discrepancyFlag = "OK"

C3_Witness ==
    /\ Done
    /\ \E i \in Records :
          /\ WithinTolerance(transactions[i])
          /\ transactions[i].plate \notin FlaggedPlates
          /\ Flagged # {}
          /\ result[i].charging.discrepancyFlag = "OK"

(* C4: the discrepancy flag is Potential Charger Fault when the charger of
   the transaction has at least 3 flagged transactions in the whole log,
   otherwise Suspicious when the plate has a flagged transaction, otherwise
   OK; so the flagged transactions of a charger with 3 or more of them all
   show Potential Charger Fault. *)
C4_FlagPriority ==
    Done => \A i \in Records :
        /\ result[i].charging.discrepancyFlag =
              IF Cardinality(FlaggedOn(transactions[i].chargerId)) >= 3
              THEN "Potential Charger Fault"
              ELSE IF transactions[i].plate \in FlaggedPlates THEN "Suspicious"
              ELSE "OK"
        /\ (i \in Flagged /\ Cardinality(FlaggedOn(transactions[i].chargerId)) >= 3)
              => result[i].charging.discrepancyFlag = "Potential Charger Fault"

C4_Witness ==
    /\ Done
    /\ \E i, j \in Records :
          /\ i \notin Flagged
          /\ transactions[i].plate \notin FlaggedPlates
          /\ result[i].charging.discrepancyFlag = "Potential Charger Fault"
          /\ j \in Flagged
          /\ result[j].charging.discrepancyFlag = "Potential Charger Fault"

(* C5 as stated: two runs of processData on the same transactions,
   detections and registry yield identical lists, whenever they happen. *)
C5_Original ==
    (lastRun # None /\ lastRun[1].previous # None) =>
        lastRun[1].result = lastRun[1].previous[1].result

(* C5 amended: two runs of processData on the same transactions, detections
   and registry that read the same clock value yield identical lists; the
   result depends on the three inputs and on the current time only. *)
C5_SameClockSameResult ==
    ( /\ lastRun # None
      /\ lastRun[1].previous # None
      /\ lastRun[1].previous[1].time = lastRun[1].time )
    => lastRun[1].result = lastRun[1].previous[1].result

C5_Witness ==
    /\ Done
    /\ lastRun[1].previous # None
    /\ lastRun[1].previous[1].time = lastRun[1].time
    /\ \E i \in Records : result[i].charging.discrepancyFlag = "Suspicious"
    /\ \E i \in Records : "Reg Expired for" \notin {Kinds(i)[m] : m \in DOMAIN Kinds(i)}

(* C6: the score of a record is max(0, 100 - 20 * k), where k counts the
   failed checks among registration, insurance, pollution, fine, tax and
   charging flag, and k is the number of messages of overallStatus other
   than the helmet advisory. *)
C6_ScoreFormula ==
    Done => \A i \in Records :
        LET k == Cardinality(FailedChecks(i)) IN
        /\ result[i].compliance.score = (IF 100 - 20 * k > 0 THEN 100 - 20 * k ELSE 0)
        /\ Cardinality(NonHelmet(i)) = k

C6_Witness ==
    /\ Done
    /\ \E i \in Records :
          /\ Cardinality(FailedChecks(i)) = 3
          /\ result[i].compliance.score = 40
          /\ Len(result[i].compliance.overallStatus) = 4

(* C7: the messages of overallStatus follow the order registration,
   insurance, pollution, fine, tax, charging discrepancy, helmet, with at
   most one message per category. *)
C7_MessageOrder ==
    Done => \A i \in Records :
        \A a, b \in DOMAIN Kinds(i) :
            a < b => Rank(Kinds(i)[a]) < Rank(Kinds(i)[b])

C7_Witness ==
    /\ Done
    /\ \E i \in Records : Len(result[i].compliance.overallStatus) = 7

(* C8 as stated: with no registry record for the plate, insurance defaults
   to Expired and road tax to Due, and these are the only deductions the
   missing record causes: the score is 60 when the charging flag is OK. *)
C8_Original ==
    Done => \A i \in Records :
        Registry(i) = None =>
            /\ result[i].compliance.insuranceStatus = "Expired"
            /\ result[i].compliance.taxStatus = "Due"
            /\ result[i].charging.discrepancyFlag = "OK" =>
                   result[i].compliance.score = 60

(* C8 amended: with no registry record for the plate, insurance defaults to
   Expired and road tax to Due, and the missing record fails four checks
   (registration, insurance, pollution, tax), each with its -20 deduction
   and its message: the score is 20 when the charging flag is OK and 0
   otherwise. *)
C8_MissingRegistryScore ==
    Done => \A i \in Records :
        Registry(i) = None =>
            /\ result[i].compliance.insuranceStatus = "Expired"
            /\ result[i].compliance.taxStatus = "Due"
            /\ {Kinds(i)[m] : m \in DOMAIN Kinds(i)} \ {"Charging Discrepancy on", "No Helmet on"}
                   = {"Reg Expired for", "Insurance Expired for",
                      "PUC Expired for", "Tax Due for"}
            /\ result[i].compliance.score =
                   (IF result[i].charging.discrepancyFlag = "OK" THEN 20 ELSE 0)

C8_Witness ==
    /\ Done
    /\ \E i \in Records :
          /\ Registry(i) = None
          /\ result[i].charging.discrepancyFlag = "OK"
          /\ result[i].compliance.score = 20
          /\ Len(result[i].compliance.overallStatus) = 4

(* C9 as stated: with no registry record for the plate every status field
   takes its failing value, the fine status included. *)
C9_Original ==
    Done => \A i \in Records :
        Registry(i) = None =>
            /\ result[i].compliance.registrationStatus = "Expired"
            /\ result[i].compliance.insuranceStatus = "Expired"
            /\ result[i].compliance.pucStatus = "Expired"
            /\ result[i].compliance.taxStatus = "Due"
            /\ result[i].compliance.fineStatus.text # "OK"

(* C9 amended: with no registry record for the plate registrationStatus,
   insuranceStatus and pucStatus are Expired and taxStatus is Due, while
   the fine status is OK (no fine is pending). *)
C9_MissingRegistryStatus ==
    Done => \A i \in Records :
        Registry(i) = None =>
            /\ result[i].compliance.registrationStatus = "Expired"
            /\ result[i].compliance.insuranceStatus = "Expired"
            /\ result[i].compliance.pucStatus = "Expired"
            /\ result[i].compliance.taxStatus = "Due"
            /\ result[i].compliance.fineStatus = [text |-> "OK", amount |-> 0]

C9_Witness ==
    /\ Done
    /\ \E i, j \in Records :
          /\ Registry(i) = None
          /\ result[i].compliance.fineStatus.text = "OK"
          /\ Registry(j) # None
          /\ result[j].compliance.insuranceStatus = "Active"

(* C10: with no detection for the plate the record has vehicleType Other,
   helmet null, charging.detected equal to billedKwh, charging.difference 0
   and no helmet advisory. *)
C10_MissingDetectionDefaults ==
    Done => \A i \in Records :
        ~HasDetection(transactions[i].plate) =>
            /\ result[i].vehicleType = "Other"
            /\ result[i].helmet = "null"
            /\ result[i].charging.detected = transactions[i].billedKwh
            /\ result[i].charging.difference = 0
            /\ \A m \in DOMAIN Kinds(i) : Kinds(i)[m] # "No Helmet on"

C10_Witness ==
    /\ Done
    /\ \E i, j \in Records :
          /\ ~HasDetection(transactions[i].plate)
          /\ result[i].charging.difference = 0
          /\ HasDetection(transactions[j].plate)
          /\ result[j].charging.difference # 0

KindSet(i) == {Kinds(i)[m] : m \in DOMAIN Kinds(i)}

Without(txs, i) == SubSeq(txs, 1, i - 1) \o SubSeq(txs, i + 1, Len(txs))

Swap(seq, a, b) ==
    [k \in DOMAIN seq |-> IF k = a THEN seq[b] ELSE IF k = b THEN seq[a] ELSE seq[k]]

EmptyPass == [suspiciousSessions |-> {}, discrepancyCounts |-> [c \in Chargers |-> 0]]

(* C11: processData never fails: whenever the log parses, the timer callback
   of handleAnalyze ends with a result holding one record per transaction,
   whatever plates the detection list and the registry lack. *)
C11_ProcessDataTotal ==
    [][(timerPending /\ parseTransactions(transactionLog).ok) =>
           /\ analysisResult' # None
           /\ Len(analysisResult'[1]) = Len(transactions)]_vars

C11_Witness ==
    /\ Done
    /\ Len(result) >= 2
    /\ aiDetections = << >>
    /\ \E i \in Records : Registry(i) = None

(* C12: a transaction whose plate has no detection takes no part in Pass 1:
   the suspicious set and the per-charger counters are those of the log
   without it, its own record is never Suspicious, and removing it from the
   log leaves the discrepancy flag of every other record as it was. *)
C12_UndetectedExcluded ==
    Done => \A i \in Records :
        ~HasDetection(transactions[i].plate) =>
            LET rest == Without(transactions, i)
                other == processData(rest, aiDetections, rtoDatabase, runTime)
            IN  /\ FirstPass(EmptyPass, transactions, aiDetections) =
                       FirstPass(EmptyPass, rest, aiDetections)
                /\ result[i].charging.discrepancyFlag # "Suspicious"
                /\ \A j \in Records \ {i} :
                       result[j].charging.discrepancyFlag =
                           other[IF j < i THEN j ELSE j - 1].charging.discrepancyFlag

C12_Witness ==
    /\ Done
    /\ \E i, j \in Records :
          /\ ~HasDetection(transactions[i].plate)
          /\ j \in Flagged
          /\ transactions[j].chargerId = transactions[i].chargerId
          /\ result[j].charging.discrepancyFlag = "Suspicious"
          /\ result[i].charging.discrepancyFlag = "OK"

(* C13: in every record each status string agrees with its check: the
   status is the failing one exactly when the message of that category is
   in overallStatus, for registration, insurance, pollution, tax and fine. *)
C13_StatusMatchesMessages ==
    Done => \A i \in Records :
        LET c == result[i].compliance IN
        /\ (c.registrationStatus = "Expired") <=> ("Reg Expired for" \in KindSet(i))
        /\ (c.insuranceStatus # "Active") <=> ("Insurance Expired for" \in KindSet(i))
        /\ (c.pucStatus = "Expired") <=> ("PUC Expired for" \in KindSet(i))
        /\ (c.taxStatus # "Paid") <=> ("Tax Due for" \in KindSet(i))
        /\ (c.fineStatus.text # "OK") <=> ("Fine Pending" \in KindSet(i))

C13_Witness ==
    /\ Done
    /\ \E i \in Records :
          /\ result[i].compliance.fineStatus.text # "OK"
          /\ result[i].compliance.taxStatus = "Due"
          /\ result[i].compliance.insuranceStatus = "Active"
          /\ result[i].compliance.registrationStatus = "Valid"
          /\ KindSet(i) = {"PUC Expired for", "Fine Pending", "Tax Due for"}

(* C14: a detected 2-Wheeler without helmet gets the helmet advisory as the
   last entry of overallStatus, and the helmet value has no effect on the
   score: changing only the helmet value of a detection leaves every
   record's score as it is. *)
C14_HelmetAdvisoryOnly ==
    Done =>
        /\ \A i \in Records :
              ( /\ HasDetection(transactions[i].plate)
                /\ DetectionOf(transactions[i].plate).vehicleType = "2-Wheeler"
                /\ DetectionOf(transactions[i].plate).helmet = "false" )
              => /\ Kinds(i) # << >>
                 /\ Kinds(i)[Len(Kinds(i))] = "No Helmet on"
        /\ \A k \in DOMAIN aiDetections : \A h \in HelmetValues :
              LET dets == [aiDetections EXCEPT ![k].helmet = h]
                  other == processData(transactions, dets, rtoDatabase, runTime)
              IN  \A i \in Records :
                      other[i].compliance.score = result[i].compliance.score

C14_Witness ==
    /\ Done
    /\ \E i \in Records :
          /\ HasDetection(transactions[i].plate)
          /\ DetectionOf(transactions[i].plate).vehicleType = "2-Wheeler"
          /\ DetectionOf(transactions[i].plate).helmet = "false"
          /\ Len(Kinds(i)) >= 2
          /\ result[i].compliance.score = 80

(* C15: processData is order-independent per vehicle: exchanging two
   transactions of the list exchanges the two records and changes nothing
   else (every permutation is a composition of such exchanges, and the
   inputs range over all lists). *)
C15_OrderIndependent ==
    Done => \A a, b \in Records :
        a < b =>
            processData(Swap(transactions, a, b), aiDetections, rtoDatabase, runTime)
                = Swap(result, a, b)

C15_Witness ==
    /\ Done
    /\ Len(result) >= 3
    /\ \E a, b \in Records :
          /\ a < b
          /\ result[a] # result[b]
          /\ result[a].charging.discrepancyFlag = "Suspicious"
          /\ result[b].charging.discrepancyFlag = "OK"

(* C19: when parsing the log fails inside handleAnalyze, the timer callback
   produces no result: analysisResult stays null as it was before the
   attempt, processData is not run, and isLoading is false afterwards. *)
C19_FailedParseNoResult ==
    [][(timerPending /\ ~timerPending' /\ ~parseTransactions(transactionLog).ok) =>
           /\ analysisResult' = analysisResult
           /\ analysisResult' = None
           /\ lastRun' = lastRun
           /\ ~isLoading']_vars

C19_Witness ==
    /\ lastAlert = Some(AlertText)
    /\ lastRun = None
    /\ Len(transactionLog) >= 2
    /\ ~parseTransactions(transactionLog).ok
    /\ analysisResult = None
    /\ ~isLoading
    /\ ~timerPending

RowsOf(plate) == {i \in 1..Len(data) : data[i].plate = plate}

(* C16: in every interleaving of summary requests and summarizer responses
   of a dashboard, at most one getComplianceSummary call is in flight for a
   plate, and a call in flight is the one loadingSummary names, also when
   two rows of the table carry the plate. *)
C16_OneCallPerPlate ==
    \A plate \in Plates :
        /\ summaryCalls[plate] <= 1
        /\ summaryCalls[plate] = 1 => loadingSummary = Some(plate)

C16_Witness ==
    /\ Done
    /\ \E plate \in Plates :
          /\ summaryCalls[plate] = 1
          /\ Cardinality(RowsOf(plate)) = 2
          /\ expandedRow = Some(plate)
          /\ loadingSummary = Some(plate)

(* C17: a failing summarizer call, for one vehicle or for the fleet, leaves
   the scored data as it was; it only stores the error text of that call
   and returns the loading indicator to idle. *)
C17_FailureIsolated ==
    [][/\ \A plate \in Plates :
            (summaryCalls'[plate] < summaryCalls[plate] /\
             summaries'[plate] = Some(ErrorText)) =>
                /\ analysisResult' = analysisResult
                /\ lastRun' = lastRun
                /\ loadingSummary' = None
                /\ \A other \in Plates \ {plate} :
                       summaries'[other] = summaries[other]
       /\ (suggestionCalls' < suggestionCalls /\ suggestionsError' # None) =>
                /\ analysisResult' = analysisResult
                /\ lastRun' = lastRun
                /\ suggestionsError' = Some(SuggestionsErrorText)
                /\ aiSuggestions' = aiSuggestions
                /\ ~isGeneratingSuggestions']_vars

C17_Witness ==
    /\ Done
    /\ Len(result) = 2
    /\ suggestionsError = Some(SuggestionsErrorText)
    /\ ~isGeneratingSuggestions
    /\ loadingSummary = None
    /\ \E plate \in Plates : summaries[plate] = Some(ErrorText)

(* C18 as stated: once a summary is stored for a plate, an explicit request
   is able to regenerate it, that is, with the row of the plate expanded
   and no call in flight a summary request for the plate can be made. *)
C18_Original ==
    \A i \in 1..MaxRows :
        ( /\ Done
          /\ i \in Records
          /\ Truthy(summaries[result[i].plate])
          /\ expandedRow = Some(result[i].plate)
          /\ loadingSummary = None )
        => ENABLED HandleGenerateSummary(i)

(* C18: once a non-empty text is stored for a plate it stays for the rest of
   the dashboard session: no step replaces it and no step issues a
   summarizer call for that plate; a call is issued only by a summary
   request on the expanded row of a plate without stored text. *)
C18_CachedForSession ==
    [][\A plate \in Plates :
          /\ Truthy(summaries[plate]) =>
                /\ summaries'[plate] = summaries[plate]
                /\ summaryCalls'[plate] <= summaryCalls[plate]
          /\ summaryCalls'[plate] > summaryCalls[plate] =>
                /\ expandedRow = Some(plate)
                /\ ~Truthy(summaries[plate])]_vars

C18_Witness ==
    /\ Done
    /\ \E plate \in Plates :
          /\ Truthy(summaries[plate])
          /\ summaries[plate] # Some(ErrorText)
          /\ expandedRow = Some(plate)
          /\ \E other \in Plates \ {plate} :
                /\ Truthy(summaries[other])
                /\ summaryCalls[other] = 0
                /\ loadingSummary = None

(* C20: the report exporter receives exactly the subset chosen in the
   dashboard: the records with a selected plate when a row is selected,
   otherwise the filtered records, together with the section toggles, and
   no record outside the subset appears in the report. *)
C20_ExporterGetsSubset ==
    lastExport # None =>
        LET call == lastExport[1]
            chosen == IF call.selectedRows # {}
                      THEN SelectSeq(result,
                               LAMBDA v : v.plate \in call.selectedRows)
                      ELSE call.filteredData
            shown == {call.report.compliance[k] :
                          k \in 1..Len(call.report.compliance)}
        IN  /\ call.received.data = chosen
            /\ call.received.sections = Some(call.reportOptions)
            /\ ~call.report.threw
            /\ shown \subseteq {chosen[k].plate : k \in 1..Len(chosen)}

PlatesFlaggedOn(charger) == {transactions[j].plate : j \in FlaggedOn(charger)}

(* C24 as stated: a record shows Potential Charger Fault only when flagged
   transactions of at least two different plates met on its charger. *)
C24_Original ==
    Done => \A i \in Records :
        result[i].charging.discrepancyFlag = "Potential Charger Fault" =>
            Cardinality(PlatesFlaggedOn(transactions[i].chargerId)) >= 2

(* C24: a record shows Potential Charger Fault exactly when its charger has
   at least FaultThreshold flagged transactions in the log, counted per
   transaction: transactions of one single plate count each time. *)
C24_FaultCountsTransactions ==
    Done => \A i \in Records :
        result[i].charging.discrepancyFlag = "Potential Charger Fault" <=>
            Cardinality(FlaggedOn(transactions[i].chargerId)) >= FaultThreshold

C24_Witness ==
    /\ Done
    /\ \E i \in Records :
          /\ result[i].charging.discrepancyFlag = "Potential Charger Fault"
          /\ Cardinality(PlatesFlaggedOn(transactions[i].chargerId)) = 1
          /\ Cardinality(FlaggedOn(transactions[i].chargerId)) = FaultThreshold

(* C25: for every transaction with a matching detection, also one that
   detected 0 kWh, charging.detected is the detection's detectedKwh and
   charging.difference is billedKwh - detectedKwh, the difference Pass 1
   used; so a record Suspicious through its own transaction has a
   difference above the tolerance. *)
C25_DifferenceIsPassOne ==
    Done => \A i \in Records :
        HasDetection(transactions[i].plate) =>
            LET detectedKwh == DetectionOf(transactions[i].plate).detectedKwh IN
            /\ result[i].charging.detected = detectedKwh
            /\ result[i].charging.difference =
                   transactions[i].billedKwh - detectedKwh
            /\ (i \in Flagged /\ result[i].charging.discrepancyFlag = "Suspicious")
                   => Abs(result[i].charging.difference) > Tolerance

(* C26: the helmet advisory is appended only for a detected 2-Wheeler whose
   helmet value is false; a 2-Wheeler with helmet null gets no helmet
   message and its record keeps helmet null. *)
C26_HelmetOnlyWhenFalse ==
    Done => \A i \in Records :
        /\ "No Helmet on" \in KindSet(i) =>
               /\ HasDetection(transactions[i].plate)
               /\ DetectionOf(transactions[i].plate).vehicleType = "2-Wheeler"
               /\ DetectionOf(transactions[i].plate).helmet = "false"
        /\ ( /\ HasDetection(transactions[i].plate)
             /\ DetectionOf(transactions[i].plate).vehicleType = "2-Wheeler"
             /\ DetectionOf(transactions[i].plate).helmet = "null" )
           => /\ "No Helmet on" \notin KindSet(i)
              /\ result[i].helmet = "null"

OnlyBlankBelowHeader(text) ==
    /\ Len(text) >= 2
    /\ text[1].kind = "header"
    /\ \A k \in 2..Len(text) : text[k].kind = "blank"

(* C22: a log whose only content below the header is blank fails with
   MissingDataError, as does every log of fewer than 2 lines, and no log
   parses successfully into an empty transaction list. *)
C22_NoEmptyParse ==
    LET parsed == parseTransactions(transactionLog) IN
    /\ OnlyBlankBelowHeader(transactionLog) =>
           ~parsed.ok /\ parsed.error = "MissingDataError"
    /\ Len(transactionLog) = 1 /\ transactionLog[1].kind # "blank" =>
           ~parsed.ok /\ parsed.error = "MissingDataError"
    /\ parsed.ok => parsed.rows # << >>
    /\ lastAlert # None => ~parsed.ok
    /\ analysisResult # None => parsed.ok /\ analysisResult[1] # << >>

C22_Witness ==
    /\ OnlyBlankBelowHeader(transactionLog)
    /\ RequiredColumns \subseteq transactionLog[1].columns
    /\ Len(transactionLog) = 3
    /\ lastAlert = Some(AlertText)
    /\ analysisResult = None
    /\ ~isLoading

RowLines(text) == SelectSeq(text, LAMBDA l : l.kind = "row")

(* C23: analysisResult is always either null or the complete result of
   processData over every row of the parsed log; the dashboard is shown
   exactly when it is non-null, and no dashboard state exists otherwise;
   every analyze request eventually ends with isLoading false. *)
C23_CompleteOrNothing ==
    /\ [](analysisResult # None =>
              /\ lastRun # None
              /\ parseTransactions(transactionLog).ok
              /\ Len(result) = Len(RowLines(transactionLog))
              /\ result = processData(parseTransactions(transactionLog).rows,
                                      aiDetections, rtoDatabase, runTime))
    /\ [](DashboardShown <=> analysisResult # None)
    /\ [](~DashboardShown => DashboardMounted)
    /\ [](isLoading <=> timerPending)
    /\ (isLoading ~> ~isLoading)

C23_Witness ==
    /\ Done
    /\ ~isLoading
    /\ Len(result) = 2
    /\ Len(transactionLog) = 4
    /\ transactionLog[3].kind = "blank"
    /\ lastRun[1].previous # None

SuggestionsExclusive ==
    /\ ~(aiSuggestions # None /\ suggestionsError # None)
    /\ isGeneratingSuggestions => aiSuggestions = None /\ suggestionsError = None
    /\ suggestionCalls <= 1
    /\ isGeneratingSuggestions <=> suggestionCalls = 1

(* C29: in the fleet-suggestions state machine aiSuggestions and
   suggestionsError are never both set, neither is set while a request is
   in flight, at most one request is in flight, and after a failed request
   a new request can be started. *)
C29_SuggestionsRetry ==
    /\ SuggestionsExclusive
    /\ (Done /\ suggestionsError # None /\ ~isGeneratingSuggestions)
           => ENABLED HandleGenerateSuggestions

(* C30: after a failed summarizer call for a plate, a later summary request
   for the plate in the same dashboard session issues a new call: with the
   row of the plate expanded and no call in flight the request can be
   made. *)
C30_RetryAfterFailure ==
    \A i \in 1..MaxRows :
        ( /\ Done
          /\ i \in Records
          /\ summaries[result[i].plate] = Some(ErrorText)
          /\ expandedRow = Some(result[i].plate)
          /\ loadingSummary = None )
        => ENABLED HandleGenerateSummary(i)

Kept(i) == \E k \in 1..Len(filteredData) : filteredData[k] = result[i]

DateFilterActive == dateRange.start # "" \/ dateRange.end # ""

InsideRange(day) ==
    /\ dateRange.start = "" \/ DayOf(dateRange.start) <= day
    /\ dateRange.end = "" \/ day <= DayOf(dateRange.end)

(* C27: with a date range active, a record is kept in filteredData exactly
   when the day of its transaction lies between the start day and the end
   day, both included (and it passes the other filters); a record of a
   transaction inside the range is shown. *)
C27_DateRangeKeepsInside ==
    (Done /\ DateFilterActive) => \A i \in Records :
        /\ Kept(i) => InsideRange(transactions[i].timestamp)
        /\ ( /\ filters = FreshTable[2]
             /\ searchQuery = ""
             /\ InsideRange(transactions[i].timestamp) ) => Kept(i)

VisiblePlates == {filteredData[k].plate : k \in 1..Len(filteredData)}

(* C28: handleSelectAll changes the selection only for the plates of the
   visible records: it removes exactly the visible plates when all of them
   are selected and adds exactly the visible plates otherwise; selected
   plates hidden by the filter stay selected, and afterwards all or none
   of the visible records are selected. *)
C28_SelectAllVisibleOnly ==
    [][HandleSelectAll =>
          /\ VisiblePlates \subseteq selectedRows =>
                 selectedRows' = selectedRows \ VisiblePlates
          /\ ~(VisiblePlates \subseteq selectedRows) =>
                 selectedRows' = selectedRows \cup VisiblePlates
          /\ selectedRows' \ VisiblePlates = selectedRows \ VisiblePlates
          /\ \/ VisiblePlates \subseteq selectedRows'
             \/ VisiblePlates \cap selectedRows' = {}]_vars

C28_Witness ==
    /\ Done
    /\ VisiblePlates # {}
    /\ selectedRows \cap VisiblePlates = {}
    /\ selectedRows \ VisiblePlates # {}
    /\ filters.charging = "Suspicious"

(* C21: no dashboard operation mutates the scored data: after any sequence
   of searches, filter and date changes, filter resets, row selections,
   select-all, mark and clear reviewed, summary and suggestion requests
   and report generations, the data list is the list the analysis run
   produced, record by record. *)
C21_DataNeverMutated ==
    Done =>
        /\ lastRun # None
        /\ data = lastRun[1].result
        /\ Len(data) = Len(transactions)
        /\ \A i \in 1..Len(data) :
               data[i] = processData(transactions, aiDetections, rtoDatabase,
                                     runTime)[i]

C21_Witness ==
    /\ Done
    /\ Len(filteredData) < Len(data)
    /\ searchQuery # ""
    /\ selectedRows # {}
    /\ reviewedDiscrepancies # {}
    /\ lastExport # None
    /\ summaries["KA01"] # None
    /\ aiSuggestions # None

====
